---- MODULE Spec2Model ----
(***************************************************************************)
(* Payment-to-order reconciliation of the ecommerce backend.               *)
(*                                                                         *)
(* The model covers the Stripe view set (create-intent, shipping, webhook, *)
(* manual create-order and its private _create_order_from_payment_intent), *)
(* the OrderCreationService (create_order_from_payment_intent and its      *)
(* stock reservation), the two order serializers, OrderViewSet.create and  *)
(* the cart / product-item endpoints that change the rows reconciliation   *)
(* reads.  Prices and totals are kept in tenths of a cent, the gateway      *)
(* amount in cents.  The database is one record `db`; a                     *)
(* transaction works on a private copy that replaces `db` at commit.       *)
(***************************************************************************)
EXTENDS Integers, Sequences, FiniteSets, TLC

\* ------------------------------------------------------------------ bounds
MaxStock == 2
MaxQty   == 2
MaxLines == 2
MaxReqs  == 2
MaxCartQty == 1
MaxOrders == 2
MaxGuests == 2

Items        == {"A", "B"}
Users        == {"u1"}
GuestCookies == {"g1"}
IntentIds    == {"pi_1"}
Reqs         == 1..MaxReqs

None      == "None"          \* a missing string value (Python None or "")
NoCountry == "NoCountry"     \* context.get("country_code") of an empty context
NoId      == 0               \* a missing numeric id (order, guest, address, vendor)
NoPrice   == -1              \* a price lookup that returned None
Unavailable == -2            \* no price row at all for the location

\* ------------------------------------------------------------------ catalog
\* ProductItemModel.price: the price of the 'au' row of country_prices.
ProductItemModel_price(i) == IF i = "A" THEN 10000 ELSE 5005

\* ProductLocationModel.price of the item's product in a location.
ProductLocationPrice(i, cc) ==
    IF cc = "au" THEN (IF i = "A" THEN 10000 ELSE 5000) ELSE NoPrice

\* ProductItemLocationModel.effective_discount (percent) of the row for the
\* item in a location, NoPrice when there is no such row.
ItemLocationDiscount(i, cc) ==
    IF cc = "au" /\ i = "B" THEN 50 ELSE NoPrice

\* ProductItemLocationModel.final_price: base * (1 - discount / 100),
\* NoPrice when the product has no ProductLocation row for the location.
final_price(i, cc) ==
    IF ProductLocationPrice(i, cc) = NoPrice THEN NoPrice
    ELSE (ProductLocationPrice(i, cc) * (100 - ItemLocationDiscount(i, cc))) \div 100

\* The price lookup of both order serializers for one line: the item-location
\* final price, else the product-location base price, else Unavailable.
SerializerPrice(i, cc) ==
    IF ItemLocationDiscount(i, cc) # NoPrice THEN final_price(i, cc)
    ELSE IF ProductLocationPrice(i, cc) # NoPrice THEN ProductLocationPrice(i, cc)
    ELSE Unavailable

\* ------------------------------------------------------------------ carts
Lines == [product_item_id : Items, qty : 1..MaxQty]

\* The carts clients send: one line of any quantity, or several lines (the
\* same product item may repeat) of quantity one.
Carts ==
    {c \in UNION {[1..n -> Lines] : n \in 1..MaxLines} :
        Len(c) = 1 \/ \A k \in DOMAIN c : c[k].qty = 1}

\* The request bodies of create-intent: each line names a product item, a
\* quantity (possibly 0) and whatever price the client chose to send along.
ClientPrices == {1, 99999}
BodyLines == [product_item_id : Items, qty : 0..MaxQty, price : ClientPrices]

\* lines_norm: the lines of positive quantity, reduced to item and quantity.
RECURSIVE lines_norm(_)
lines_norm(body) ==
    IF body = <<>> THEN <<>>
    ELSE (IF Head(body).qty <= 0 THEN <<>>
          ELSE <<[product_item_id |-> Head(body).product_item_id, qty |-> Head(body).qty]>>)
         \o lines_norm(Tail(body))

Bodies ==
    {b \in UNION {[1..n -> BodyLines] : n \in 1..MaxLines} :
        /\ lines_norm(b) \in Carts
        /\ \A k \in DOMAIN b : b[k].price = b[1].price}

\* _to_cents: a value in tenths of a cent to whole cents, rounding half up.
to_cents(value) == (value + 5) \div 10

\* The sum of unit price times quantity over the lines.
RECURSIVE CartTotal(_)
CartTotal(c) ==
    IF c = <<>> THEN 0
    ELSE ProductItemModel_price(Head(c).product_item_id) * Head(c).qty + CartTotal(Tail(c))

\* Total quantity a cart asks of one product item.
RECURSIVE QtyOf(_, _)
QtyOf(c, i) ==
    IF c = <<>> THEN 0
    ELSE (IF Head(c).product_item_id = i THEN Head(c).qty ELSE 0) + QtyOf(Tail(c), i)

\* The amount as it would be were the price in the request used for a line.
RECURSIVE ClientTotal(_)
ClientTotal(body) ==
    IF body = <<>> THEN 0
    ELSE Head(body).price * Head(body).qty + ClientTotal(Tail(body))

IntentAmountClientPriced(body) == to_cents(ClientTotal(body))

\* The amount create_intent gives the gateway for a request body.
IntentAmount(body) == to_cents(CartTotal(lines_norm(body)))

CartItemSet(c) == {c[k].product_item_id : k \in DOMAIN c}

\* ------------------------------------------------------------------ state
VARIABLES
    db,        \* the committed database: items, stock, orders, orderItems,
               \*   guests, addresses, cart
    intents,   \* the gateway: IntentIds -> payment intent (status, amount, metadata)
    req,       \* the requests in flight or finished; ran: the request entered
               \*   the order-creation routine; prior: the requests that had
               \*   finished when it did; caller: whether a create-order
               \*   request came from the intent's owner or from another
    rowLock,   \* ProductItem row -> the request whose transaction holds its lock
    direct,    \* the last response of POST /api/order
    stock0     \* the stock at the start, kept for comparison

vars == <<db, intents, req, rowLock, direct, stock0>>

\* ------------------------------------------------------------------ order model
\* OrderModel.save: the number in the id of the order created last, plus one.
OrderModel_save(d) ==
    IF Len(d.orders) = 0 THEN 1 ELSE d.orders[Len(d.orders)].id + 1

OrdersWithIntent(d, pid) == {k \in DOMAIN d.orders : d.orders[k].paymentIntentId = pid}

\* OrderModel.objects.filter(paymentIntentId=...).first(): the id of the
\* order found, NoId when there is none.
ExistingOrder(d, pid) ==
    IF OrdersWithIntent(d, pid) = {} THEN NoId
    ELSE d.orders[CHOOSE k \in OrdersWithIntent(d, pid) :
                     \A m \in OrdersWithIntent(d, pid) : k <= m].id

\* ------------------------------------------------------------------ serializers
\* The items of the serializer input built from the cart lines.
ToOrderItems(c) ==
    [k \in DOMAIN c |-> [productItemId |-> c[k].product_item_id, quantity |-> c[k].qty]]

\* The pricing loop of both serializers.  raised: a line named a product item
\* that does not exist, has no price row for the location, or has a None price.
RECURSIVE AssembleItems(_, _, _)
AssembleItems(d, its, cc) ==
    IF its = <<>> THEN [raised |-> FALSE, total |-> 0, rows |-> <<>>]
    ELSE LET it    == Head(its)
             price == SerializerPrice(it.productItemId, cc)
             rest  == AssembleItems(d, Tail(its), cc)
         IN IF it.productItemId \notin d.items \/ price = Unavailable \/ price = NoPrice
            THEN [raised |-> TRUE, total |-> 0, rows |-> <<>>]
            ELSE IF rest.raised THEN rest
            ELSE [raised |-> FALSE,
                  total  |-> price * it.quantity + rest.total,
                  rows   |-> <<[productItem |-> it.productItemId,
                                quantity |-> it.quantity, price |-> price]>> \o rest.rows]

OrderRows(oid, rows) ==
    [k \in DOMAIN rows |-> [order |-> oid, productItem |-> rows[k].productItem,
                            quantity |-> rows[k].quantity, price |-> rows[k].price]]

\* is_valid of CreateGuestOrderSerializer: email, firstName and lastName are
\* required and non-blank, addressId is required.
GuestDataValid(data) ==
    /\ data.email # None
    /\ data.firstName # None
    /\ data.lastName # None
    /\ data.addressId # NoId

\* is_valid of CreateAuthenticatedOrderSerializer: user_id and addressId are required.
AuthDataValid(data) ==
    /\ data.user_id # None
    /\ data.addressId # NoId

\* The guest serializer as it would be were the new guest not put on the order.
CreateGuestOrderSerializer_unowned(d, data, cc) ==
    IF cc = NoCountry THEN [raised |-> TRUE, db |-> d, order |-> NoId]
    ELSE
    LET g  == Len(d.guests) + 1
        d1 == [d EXCEPT !.guests = Append(@, [id |-> g, email |-> data.email])]
        a  == AssembleItems(d1, data.items, cc)
        oid == OrderModel_save(d1)
        order == [id |-> oid, user |-> None, guestUser |-> NoId,
                  address |-> data.addressId, totalPrice |-> a.total,
                  status |-> "pending", paymentIntentId |-> None]
    IN  IF data.addressId \notin d1.addresses \/ a.raised
        THEN [raised |-> TRUE, db |-> d1, order |-> NoId]
        ELSE [raised |-> FALSE,
              db |-> [d1 EXCEPT !.orders = Append(@, order),
                                !.orderItems = @ \o OrderRows(oid, a.rows)],
              order |-> oid]

\* CreateGuestOrderSerializer.create on database d.  The result carries the
\* database as the statements left it, also when the call raised.
CreateGuestOrderSerializer_create(d, data, cc) ==
    IF cc = NoCountry THEN [raised |-> TRUE, db |-> d, order |-> NoId]
    ELSE
    LET g  == Len(d.guests) + 1
        d1 == [d EXCEPT !.guests = Append(@, [id |-> g, email |-> data.email])]
        a  == AssembleItems(d1, data.items, cc)
        oid == OrderModel_save(d1)
        order == [id |-> oid, user |-> None, guestUser |-> g,
                  address |-> data.addressId, totalPrice |-> a.total,
                  status |-> "pending", paymentIntentId |-> None]
    IN  IF data.addressId \notin d1.addresses \/ a.raised
        THEN [raised |-> TRUE, db |-> d1, order |-> NoId]
        ELSE [raised |-> FALSE,
              db |-> [d1 EXCEPT !.orders = Append(@, order),
                                !.orderItems = @ \o OrderRows(oid, a.rows)],
              order |-> oid]

\* CreateAuthenticatedOrderSerializer.create on database d.
CreateAuthenticatedOrderSerializer_create(d, data, cc) ==
    IF cc = NoCountry THEN [raised |-> TRUE, db |-> d, order |-> NoId]
    ELSE
    LET a   == AssembleItems(d, data.items, cc)
        oid == OrderModel_save(d)
        order == [id |-> oid, user |-> data.user_id, guestUser |-> NoId,
                  address |-> data.addressId, totalPrice |-> a.total,
                  status |-> "pending", paymentIntentId |-> None]
    IN  IF data.user_id \notin Users \/ data.addressId \notin d.addresses \/ a.raised
        THEN [raised |-> TRUE, db |-> d, order |-> NoId]
        ELSE [raised |-> FALSE,
              db |-> [d EXCEPT !.orders = Append(@, order),
                               !.orderItems = @ \o OrderRows(oid, a.rows)],
              order |-> oid]

\* The orders of the ShoppingCartItem rows of a user, as cart lines, in any
\* row order (the query has no ORDER BY).
CartRows(d, u) ==
    LET S == {i \in d.items : d.cart[u][i] > 0}
    IN  { [k \in 1..Cardinality(S) |-> [product_item_id |-> f[k], qty |-> d.cart[u][f[k]]]] :
            f \in {g \in [1..Cardinality(S) -> S] : \A x, y \in 1..Cardinality(S) : g[x] = g[y] => x = y} }

\* ------------------------------------------------------------------ gateway
NoMetadata ==
    [user_id |-> None, guest_id |-> None, is_authenticated |-> "False",
     cart_items |-> <<>>, address_id |-> NoId, shipping_vendor_id |-> NoId,
     guest_email |-> None, guest_first_name |-> None, guest_last_name |-> None,
     shipping_lines |-> FALSE, shipped |-> FALSE, order_id |-> NoId]

NoIntent == [status |-> "none", amount |-> 0, metadata |-> NoMetadata]

\* The owner test shared by shipping and create_order: the authenticated
\* caller is the intent's user_id, or the guest cookie is the intent's guest_id.
IsOwner(md, user, cookie) ==
    \/ user # None /\ md.user_id = user
    \/ cookie # None /\ cookie = md.guest_id

\* The bodies PUT /shipping is called with.
ShippingForms ==
    { [addressId |-> a, shippingVendorId |-> v, email |-> e, name |-> n, lines |-> l] :
        a \in {NoId, 1, 99}, v \in {NoId, 1}, e \in {None, "e"},
        n \in {None, "n"}, l \in BOOLEAN }

\* From the full set, the forms that differ from the complete one in one respect.
ShippingCases ==
    { f \in ShippingForms :
        \/ f.addressId = 1 /\ f.shippingVendorId = 1 /\ f.email = "e" /\ f.name = "n" /\ f.lines
        \/ f.addressId = NoId /\ f.shippingVendorId = 1 /\ f.email = "e" /\ f.name = "n"
        \/ f.addressId = 1 /\ f.shippingVendorId = NoId /\ f.email = "e" /\ f.name = "n" /\ f.lines
        \/ f.addressId = 1 /\ f.shippingVendorId = 1 /\ f.email = None /\ f.name = "n" /\ f.lines }

\* ------------------------------------------------------------------ transactions
\* `with transaction.atomic()`: the block's writes are kept when it ends
\* normally and discarded when it raises.
transaction_autocommit(committed, working, raised) == working

transaction_atomic(committed, working, raised) ==
    IF raised THEN committed ELSE working

\* The context the reconciliation code and OrderViewSet.create give the order
\* serializers: they are constructed with data only.
SerializerContext == NoCountry

\* AddressService.create_from_shipping_metadata /
\* StripeViewSet.create_address_from_shipping_metadata: a new address row when
\* the shipping lines are complete, else no id.
NewAddressId(d) == Cardinality(d.addresses) + 1

AddressFromShipping(d, md) ==
    IF md.shipping_lines
    THEN [id |-> NewAddressId(d), db |-> [d EXCEPT !.addresses = @ \cup {NewAddressId(d)}]]
    ELSE [id |-> NoId, db |-> d]

IsAuthenticated(md) == md.is_authenticated = "True" /\ md.user_id # None

GuestOrderData(md, address_id, cart_items) ==
    [email |-> md.guest_email, firstName |-> md.guest_first_name,
     lastName |-> md.guest_last_name, addressId |-> address_id,
     items |-> ToOrderItems(cart_items)]

AuthOrderData(md, address_id, cart_items) ==
    [user_id |-> md.user_id, addressId |-> address_id, items |-> ToOrderItems(cart_items)]

\* order.status = PROCESSING; order.paymentIntentId = ...; order.save().
\* raised: the unique constraint on paymentIntentId rejects the update.
MarkProcessing(d, oid, pid) ==
    LET k == CHOOSE k \in DOMAIN d.orders : d.orders[k].id = oid
    IN  IF OrdersWithIntent(d, pid) # {}
        THEN [raised |-> TRUE, db |-> d]
        ELSE [raised |-> FALSE,
              db |-> [d EXCEPT !.orders[k].status = "processing",
                               !.orders[k].paymentIntentId = pid]]

\* Deleting every ShoppingCartItem row of the user.
ClearCart(d, user_id) ==
    IF user_id \in Users
    THEN [d EXCEPT !.cart[user_id] = [i \in Items |-> 0]]
    ELSE d

OrderById(d, oid) == d.orders[CHOOSE k \in DOMAIN d.orders : d.orders[k].id = oid]

Abs(x) == IF x < 0 THEN -x ELSE x

\* The charged-amount check: the amount (cents) and the order total differ
\* by more than 0.01 of the currency unit.
AmountMismatch(amount, total) == Abs(amount * 10 - total) > 10

\* ------------------------------------------------------------------ stripe view
\* The block under `with transaction.atomic()` of
\* StripeViewSet._create_order_from_payment_intent, run on database d.
\* db is the database as the block's statements left it.
ViewAtomicBlock(d, pid, pi, clearOk) ==
    LET md     == pi.metadata
        addr   == IF md.address_id = NoId THEN AddressFromShipping(d, md)
                  ELSE [id |-> md.address_id, db |-> d]
        isAuth == IsAuthenticated(md)
        valid  == IF isAuth THEN AuthDataValid(AuthOrderData(md, addr.id, md.cart_items))
                  ELSE GuestDataValid(GuestOrderData(md, addr.id, md.cart_items))
        ser    == IF isAuth
                  THEN CreateAuthenticatedOrderSerializer_create(
                           addr.db, AuthOrderData(md, addr.id, md.cart_items), SerializerContext)
                  ELSE CreateGuestOrderSerializer_create(
                           addr.db, GuestOrderData(md, addr.id, md.cart_items), SerializerContext)
        marked == MarkProcessing(ser.db, ser.order, pid)
    IN  IF addr.id = NoId THEN [raised |-> TRUE, db |-> d, order |-> NoId]
        ELSE IF ~isAuth /\ md.guest_email = None
             THEN [raised |-> TRUE, db |-> addr.db, order |-> NoId]
        ELSE IF ~valid THEN [raised |-> TRUE, db |-> addr.db, order |-> NoId]
        ELSE IF ser.raised THEN [raised |-> TRUE, db |-> ser.db, order |-> NoId]
        ELSE IF AmountMismatch(pi.amount, OrderById(ser.db, ser.order).totalPrice)
             THEN [raised |-> TRUE, db |-> ser.db, order |-> NoId]
        ELSE IF marked.raised THEN [raised |-> TRUE, db |-> ser.db, order |-> NoId]
        ELSE [raised |-> FALSE,
              db |-> IF isAuth /\ clearOk THEN ClearCart(marked.db, md.user_id) ELSE marked.db,
              order |-> ser.order]

\* ------------------------------------------------------------------ order creation service
\* The lines whose product item is unknown or whose locked stock is short.
Shortfalls(d, c) ==
    {k \in DOMAIN c : \/ c[k].product_item_id \notin d.items
                      \/ d.stock[c[k].product_item_id] < c[k].qty}

\* The update loop: stock = F('stock') - qty, once per line.
RECURSIVE UpdateStock(_, _)
UpdateStock(stock, c) ==
    IF c = <<>> THEN stock
    ELSE UpdateStock([stock EXCEPT ![Head(c).product_item_id] = @ - Head(c).qty], Tail(c))

\* The entry the validation loop appends for a line: "Product not found" for
\* an unknown product item, else the requested and the available quantity.
ShortfallEntry(d, l) ==
    IF l.product_item_id \notin d.items
    THEN [productItemId |-> l.product_item_id, error |-> "Product not found"]
    ELSE [productItemId |-> l.product_item_id, requested |-> l.qty,
          available |-> d.stock[l.product_item_id]]

IsShortfall(d, l) ==
    l.product_item_id \notin d.items \/ d.stock[l.product_item_id] < l.qty

\* The validation loop as it would be were it to stop at the first shortfall.
insufficient_stock_items_first(d, c) ==
    LET short == SelectSeq(c, LAMBDA l : IsShortfall(d, l))
    IN  IF short = <<>> THEN <<>> ELSE <<ShortfallEntry(d, short[1])>>

\* insufficient_stock_items as the validation loop leaves it: one entry per
\* failing line, in line order.
insufficient_stock_items(d, c) ==
    LET short == SelectSeq(c, LAMBDA l : IsShortfall(d, l))
    IN  [k \in DOMAIN short |-> ShortfallEntry(d, short[k])]

\* OrderCreationService._validate_and_update_stock with the rows locked.
validate_and_update_stock(d, c) ==
    IF Shortfalls(d, c) # {}
    THEN [success |-> FALSE, db |-> d, error |-> insufficient_stock_items(d, c)]
    ELSE [success |-> TRUE, db |-> [d EXCEPT !.stock = UpdateStock(@, c)], error |-> <<>>]

\* The rows select_for_update locks: the cart's product items that exist.
RowsToLock(d, c) == CartItemSet(c) \cap d.items

\* The statements of the service's atomic block after the stock step:
\* serializer.save(), the status / paymentIntentId update, the cart clear.
ServiceSaveBlock(d, pid, pi, address_id, cart_items, clearOk) ==
    LET md     == pi.metadata
        isAuth == IsAuthenticated(md)
        ser    == IF isAuth
                  THEN CreateAuthenticatedOrderSerializer_create(
                           d, AuthOrderData(md, address_id, cart_items), SerializerContext)
                  ELSE CreateGuestOrderSerializer_create(
                           d, GuestOrderData(md, address_id, cart_items), SerializerContext)
        marked == MarkProcessing(ser.db, ser.order, pid)
    IN  IF ser.raised THEN [raised |-> TRUE, db |-> ser.db, order |-> NoId]
        ELSE IF marked.raised THEN [raised |-> TRUE, db |-> ser.db, order |-> NoId]
        ELSE [raised |-> FALSE,
              db |-> IF isAuth /\ clearOk THEN ClearCart(marked.db, md.user_id) ELSE marked.db,
              order |-> ser.order]

\* ------------------------------------------------------------------ initial state
IdleReq ==
    [kind |-> "idle", pc |-> "idle", pi |-> None, cart_items |-> <<>>,
     address_id |-> NoId, newAddress |-> FALSE, stockRes |-> "none",
     order |-> NoId, resp |-> 0, prior |-> {}, ran |-> FALSE, caller |-> "none",
     error |-> <<>>, user_id |-> None, country_code |-> NoCountry]

\* The stock the shop opens with: any level of A, one unit of B.
InitialStocks == {st \in [Items -> 0..MaxStock] : st["B"] = 1}

Init ==
    /\ \E st \in InitialStocks :
         /\ db = [items |-> Items, stock |-> st, orders |-> <<>>, orderItems |-> <<>>,
                  guests |-> <<>>, addresses |-> {1},
                  cart |-> [u \in Users |-> [i \in Items |-> 0]]]
         /\ stock0 = st
    /\ intents = [p \in IntentIds |-> NoIntent]
    /\ req = [r \in Reqs |-> IdleReq]
    /\ rowLock = [i \in Items |-> 0]
    /\ direct = 0

Done(r) == req[r].pc = "done"
Finished == {r \in Reqs : Done(r)}

\* Requests take the slots in order.
Startable(r) == req[r].pc = "idle" /\ \A q \in Reqs : q < r => req[q].pc # "idle"

\* A request ends: its response and the order it returns (NoId for None).
Finish(r, kind, pid, order, resp) ==
    [req EXCEPT ![r].kind = kind, ![r].pc = "done", ![r].pi = pid,
                ![r].order = order, ![r].resp = resp,
                ![r].prior = IF req[r].pc = "idle" THEN Finished ELSE @]

\* ------------------------------------------------------------------ environment
\* POST create-intent with a cart of known product items, by an authenticated
\* user (user # None), whose client sends the cart it has persisted, or by a
\* guest holding / receiving the cookie.
CreateIntent(p, body, user, cookie) ==
    /\ intents[p].status = "none"
    /\ (user = None) # (cookie = None)
    /\ user # None => lines_norm(body) \in CartRows(db, user)
    /\ CartItemSet(lines_norm(body)) \subseteq db.items
    /\ IntentAmount(body) > 0
    /\ intents' = [intents EXCEPT ![p] =
          [status |-> "requires_payment_method", amount |-> IntentAmount(body),
           metadata |-> [NoMetadata EXCEPT
               !.user_id = user, !.guest_id = cookie,
               !.is_authenticated = IF user # None THEN "True" ELSE "False",
               !.cart_items = lines_norm(body)]]]
    /\ UNCHANGED <<db, req, rowLock, direct, stock0>>

\* PUT {intent}/shipping by the owner, once, before the card is charged.
Shipping(p, user, cookie, f) ==
    /\ intents[p].status = "requires_payment_method"
    /\ ~intents[p].metadata.shipped
    /\ ~(user # None /\ cookie # None)
    /\ IsOwner(intents[p].metadata, user, cookie)
    /\ LET guest == user = None /\ f.email # None
       IN intents' = [intents EXCEPT ![p].metadata =
            [@ EXCEPT !.shipping_lines = f.lines,
                      !.shipped = TRUE,
                      !.address_id = IF f.addressId # NoId THEN f.addressId ELSE @,
                      !.shipping_vendor_id = IF f.shippingVendorId # NoId
                                             THEN f.shippingVendorId ELSE @,
                      !.guest_email = IF guest THEN f.email ELSE @,
                      !.guest_first_name = IF guest THEN f.name ELSE @,
                      !.guest_last_name = IF guest THEN f.name ELSE @]]
    /\ UNCHANGED <<db, req, rowLock, direct, stock0>>

\* The gateway charges the card.
Charge(p) ==
    /\ intents[p].status = "requires_payment_method"
    /\ intents' = [intents EXCEPT ![p].status = "succeeded"]
    /\ UNCHANGED <<db, req, rowLock, direct, stock0>>

\* ShoppingCartViewSet.create: a new row, or the quantity added to the row.
CartCreate(u, i, q) ==
    /\ i \in db.items
    /\ db.cart[u][i] + q <= MaxCartQty
    /\ db' = [db EXCEPT !.cart[u][i] = @ + q]
    /\ UNCHANGED <<intents, req, rowLock, direct, stock0>>

\* ShoppingCartViewSet.destroy.
CartDestroy(u, i) ==
    /\ db.cart[u][i] > 0
    /\ db' = [db EXCEPT !.cart[u][i] = 0]
    /\ UNCHANGED <<intents, req, rowLock, direct, stock0>>

RECURSIVE DropItemRows(_, _)
DropItemRows(rows, i) ==
    IF rows = <<>> THEN <<>>
    ELSE (IF Head(rows).productItem = i THEN <<>> ELSE <<Head(rows)>>)
         \o DropItemRows(Tail(rows), i)

\* ProductItemViewSet.delete_product_item: the row and, by cascade, its cart
\* rows and order items.  The delete waits for a row lock.
DeleteProductItem(i) ==
    /\ i \in db.items
    /\ rowLock[i] = 0
    /\ db' = [db EXCEPT !.items = @ \ {i},
                        !.cart = [u \in Users |-> [@[u] EXCEPT ![i] = 0]],
                        !.orderItems = DropItemRows(@, i)]
    /\ UNCHANGED <<intents, req, rowLock, direct, stock0>>

\* ------------------------------------------------------------------ stripe view: requests
\* StripeViewSet._create_order_from_payment_intent up to the duplicate check:
\* the request ends with None (no shipping vendor) or with the order found,
\* or goes on to the atomic block.  respNone / respOrder: the caller's
\* response to None and to an order.
ViewBegin(r, kind, p, respNone, respOrder) ==
    LET md  == intents[p].metadata
        who == IF kind = "manual" THEN "owner" ELSE "none"
    IN  IF md.shipping_vendor_id = NoId
        THEN req' = [Finish(r, kind, p, NoId, respNone)
                       EXCEPT ![r].ran = TRUE, ![r].caller = who]
        ELSE IF ExistingOrder(db, p) # NoId
        THEN req' = [Finish(r, kind, p, ExistingOrder(db, p), respOrder)
                       EXCEPT ![r].ran = TRUE, ![r].caller = who]
        ELSE req' = [req EXCEPT ![r].kind = kind, ![r].pc = "atomic", ![r].pi = p,
                                ![r].cart_items = md.cart_items, ![r].prior = Finished,
                                ![r].ran = TRUE, ![r].caller = who]

\* The handler as it would be were the event read without verification: the
\* forged event marks the intent paid.
WebhookUnverified(r) ==
    /\ Startable(r)
    /\ req' = Finish(r, "webhook_bad", None, NoId, 400)
    /\ intents' = [p \in IntentIds |->
                     IF intents[p].status = "requires_payment_method"
                     THEN [intents[p] EXCEPT !.status = "succeeded"] ELSE intents[p]]
    /\ UNCHANGED <<db, rowLock, direct, stock0>>

\* StripeViewSet.webhook with a body or signature that does not verify.
WebhookBadSignature(r) ==
    /\ Startable(r)
    /\ req' = Finish(r, "webhook_bad", None, NoId, 400)
    /\ UNCHANGED <<db, intents, rowLock, direct, stock0>>

\* The handler as it would be were a failed payment to drop the intent's
\* shipping data.
WebhookOtherResets(r, p, etype) ==
    /\ Startable(r)
    /\ etype \in {"payment_intent.payment_failed", "charge.refunded"}
    /\ intents[p].status = "requires_payment_method"
    /\ req' = Finish(r, "webhook_other", p, NoId, 200)
    /\ intents' = [intents EXCEPT ![p].metadata.shipping_vendor_id = NoId]
    /\ UNCHANGED <<db, rowLock, direct, stock0>>

\* StripeViewSet.webhook, verified, payment_intent.payment_failed or an
\* event type the handler does not know.
WebhookOther(r, p, etype) ==
    /\ Startable(r)
    /\ etype \in {"payment_intent.payment_failed", "charge.refunded"}
    /\ intents[p].status = "requires_payment_method"
    /\ req' = Finish(r, "webhook_other", p, NoId, 200)
    /\ UNCHANGED <<db, intents, rowLock, direct, stock0>>

\* The handler as it would be were a None from order creation answered 500.
WebhookSucceededStrict(r, p) ==
    /\ Startable(r)
    /\ intents[p].status = "succeeded"
    /\ ViewBegin(r, "webhook", p, 500, 200)
    /\ UNCHANGED <<db, intents, rowLock, direct, stock0>>

\* StripeViewSet.webhook, verified, payment_intent.succeeded.
WebhookSucceeded(r, p) ==
    /\ Startable(r)
    /\ intents[p].status = "succeeded"
    /\ ViewBegin(r, "webhook", p, 200, 200)
    /\ UNCHANGED <<db, intents, rowLock, direct, stock0>>

\* create_order as it would be were a None from order creation answered 200.
CreateOrderLenient(r, p, user, cookie) ==
    /\ Startable(r)
    /\ ~(user # None /\ cookie # None)
    /\ LET md  == intents[p].metadata
           who == IF intents[p].status = "none" THEN "none"
                  ELSE IF IsOwner(md, user, cookie) THEN "owner" ELSE "other"
       IN  IF intents[p].status # "succeeded"
           THEN req' = [Finish(r, "manual", p, NoId, 400) EXCEPT ![r].caller = who]
           ELSE IF md.order_id # NoId
           THEN req' = [Finish(r, "manual", p, md.order_id, 200) EXCEPT ![r].caller = who]
           ELSE IF ~IsOwner(md, user, cookie)
           THEN req' = [Finish(r, "manual", p, NoId, 403) EXCEPT ![r].caller = who]
           ELSE ViewBegin(r, "manual", p, 200, 201)
    /\ UNCHANGED <<db, intents, rowLock, direct, stock0>>

\* StripeViewSet.create_order (POST {intent}/create-order) by a caller with
\* an authenticated user or a guest cookie or neither.
CreateOrder(r, p, user, cookie) ==
    /\ Startable(r)
    /\ ~(user # None /\ cookie # None)
    /\ LET md  == intents[p].metadata
           who == IF intents[p].status = "none" THEN "none"
                  ELSE IF IsOwner(md, user, cookie) THEN "owner" ELSE "other"
       IN  IF intents[p].status # "succeeded"
           THEN req' = [Finish(r, "manual", p, NoId, 400) EXCEPT ![r].caller = who]
           ELSE IF md.order_id # NoId
           THEN req' = [Finish(r, "manual", p, md.order_id, 200) EXCEPT ![r].caller = who]
           ELSE IF ~IsOwner(md, user, cookie)
           THEN req' = [Finish(r, "manual", p, NoId, 403) EXCEPT ![r].caller = who]
           ELSE ViewBegin(r, "manual", p, 400, 201)
    /\ UNCHANGED <<db, intents, rowLock, direct, stock0>>

\* The routine as it would be were the cart cleared whether or not the block
\* committed.
ViewAtomicClearsAnyway(r, clearOk, pushOk) ==
    /\ req[r].pc = "atomic"
    /\ req[r].kind \in {"webhook", "manual"}
    /\ LET p    == req[r].pi
           blk  == ViewAtomicBlock(db, p, intents[p], clearOk)
       IN  /\ db' = ClearCart(transaction_atomic(db, blk.db, blk.raised),
                              intents[p].metadata.user_id)
           /\ intents' = IF ~blk.raised /\ pushOk
                         THEN [intents EXCEPT ![p].metadata.order_id = blk.order]
                         ELSE intents
           /\ req' = Finish(r, req[r].kind, p, blk.order,
                            IF req[r].kind = "webhook" THEN 200
                            ELSE IF blk.order # NoId THEN 201 ELSE 400)
    /\ UNCHANGED <<rowLock, direct, stock0>>

\* The rest of _create_order_from_payment_intent: the atomic block, the push
\* of the order id into the intent metadata, and the caller's response.
ViewAtomic(r, clearOk, pushOk) ==
    /\ req[r].pc = "atomic"
    /\ req[r].kind \in {"webhook", "manual"}
    /\ LET p    == req[r].pi
           blk  == ViewAtomicBlock(db, p, intents[p], clearOk)
       IN  /\ db' = transaction_atomic(db, blk.db, blk.raised)
           /\ intents' = IF ~blk.raised /\ pushOk
                         THEN [intents EXCEPT ![p].metadata.order_id = blk.order]
                         ELSE intents
           /\ req' = Finish(r, req[r].kind, p, blk.order,
                            IF req[r].kind = "webhook" THEN 200
                            ELSE IF blk.order # NoId THEN 201 ELSE 400)
    /\ UNCHANGED <<rowLock, direct, stock0>>

\* ------------------------------------------------------------------ service: requests
\* OrderCreationService.create_order_from_payment_intent from its first line
\* to serializer.is_valid() inside the atomic block.
ServiceBegin(r, p, cart) ==
    /\ Startable(r)
    /\ intents[p].status = "succeeded"
    /\ LET md   == intents[p].metadata
           addr == IF md.address_id = NoId THEN AddressFromShipping(db, md)
                   ELSE [id |-> md.address_id, db |-> db]
           valid == IF IsAuthenticated(md)
                    THEN AuthDataValid(AuthOrderData(md, addr.id, cart))
                    ELSE md.guest_email # None
                         /\ GuestDataValid(GuestOrderData(md, addr.id, cart))
       IN  /\ cart \in (IF IsAuthenticated(md) THEN CartRows(db, md.user_id)
                        ELSE {md.cart_items})
           /\ IF cart = <<>> \/ md.shipping_vendor_id = NoId
              THEN req' = [Finish(r, "service", p, NoId, 0) EXCEPT ![r].ran = TRUE]
              ELSE IF ExistingOrder(db, p) # NoId
              THEN req' = [Finish(r, "service", p, ExistingOrder(db, p), 0)
                             EXCEPT ![r].ran = TRUE]
              ELSE IF addr.id = NoId \/ ~valid
              THEN req' = [Finish(r, "service", p, NoId, 0) EXCEPT ![r].ran = TRUE]
              ELSE req' = [req EXCEPT ![r].kind = "service", ![r].pc = "lock", ![r].pi = p,
                                      ![r].ran = TRUE,
                                      ![r].cart_items = cart,
                                      ![r].address_id = md.address_id,
                                      ![r].newAddress = (md.address_id = NoId),
                                      ![r].prior = Finished]
    /\ UNCHANGED <<db, intents, rowLock, direct, stock0>>

Held(r) == {i \in Items : rowLock[i] = r}
Wanted(r) == RowsToLock(db, req[r].cart_items) \ Held(r)

\* select_for_update takes the row locks one row at a time, in the order the
\* database scans the rows; a row locked by another transaction is waited for.
ServiceLock(r, i) ==
    /\ req[r].pc = "lock"
    /\ i \in Wanted(r)
    /\ rowLock[i] = 0
    /\ rowLock' = [rowLock EXCEPT ![i] = r]
    /\ UNCHANGED <<db, intents, req, direct, stock0>>

Release(r) == [i \in Items |-> IF rowLock[i] = r THEN 0 ELSE rowLock[i]]

WaitsFor(r, q) == req[r].pc = "lock" /\ \E i \in Wanted(r) : rowLock[i] = q

RECURSIVE Reaches(_, _, _)
Reaches(r, q, n) ==
    \/ WaitsFor(r, q)
    \/ n > 0 /\ \E m \in Reqs : WaitsFor(r, m) /\ Reaches(m, q, n - 1)

\* The database the request's transaction sees: what is committed, plus the
\* address it has inserted and the stock updates it has made.
ServiceView(r) ==
    LET d0 == IF req[r].newAddress
              THEN AddressFromShipping(db, intents[req[r].pi].metadata).db ELSE db
    IN  IF req[r].stockRes = "ok"
        THEN [d0 EXCEPT !.stock = UpdateStock(@, req[r].cart_items)]
        ELSE d0

ServiceAddress(r) ==
    IF req[r].newAddress THEN NewAddressId(db) ELSE req[r].address_id

\* The database breaks a lock cycle by failing one waiter's statement; the
\* stock step catches it and reports failure, and the block is rolled back.
ServiceDeadlock(r) ==
    /\ req[r].pc = "lock"
    /\ Reaches(r, r, MaxReqs)
    /\ rowLock' = Release(r)
    /\ req' = [Finish(r, "service", req[r].pi, NoId, 0) EXCEPT ![r].stockRes = "error"]
    /\ db' = transaction_atomic(db, ServiceView(r), TRUE)
    /\ UNCHANGED <<intents, direct, stock0>>

\* The stock step as it would be were it run line by line outside the atomic
\* block: each line with enough stock is decremented as it is met.
ServiceStockLineByLine(r) ==
    /\ req[r].pc = "lock"
    /\ Wanted(r) = {}
    /\ LET c    == req[r].cart_items
           good == SelectSeq(c, LAMBDA l : l.product_item_id \in db.items
                                           /\ db.stock[l.product_item_id] >= l.qty)
       IN  IF Len(good) = Len(c)
           THEN /\ req' = [req EXCEPT ![r].pc = "save", ![r].stockRes = "ok"]
                /\ rowLock' = rowLock
                /\ db' = db
           ELSE /\ req' = [Finish(r, "service", req[r].pi, NoId, 0)
                             EXCEPT ![r].stockRes = "insufficient"]
                /\ rowLock' = Release(r)
                /\ db' = [db EXCEPT !.stock = UpdateStock(@, good)]
    /\ UNCHANGED <<intents, direct, stock0>>

\* _validate_and_update_stock once every row is locked; on failure the
\* caller raises and the block is rolled back.
ServiceStock(r) ==
    /\ req[r].pc = "lock"
    /\ Wanted(r) = {}
    /\ LET res == validate_and_update_stock(ServiceView(r), req[r].cart_items)
       IN  IF res.success
           THEN /\ req' = [req EXCEPT ![r].pc = "save", ![r].stockRes = "ok"]
                /\ rowLock' = rowLock
                /\ db' = db
           ELSE /\ req' = [Finish(r, "service", req[r].pi, NoId, 0)
                             EXCEPT ![r].stockRes = "insufficient",
                                    ![r].error = res.error]
                /\ rowLock' = Release(r)
                /\ db' = transaction_atomic(db, res.db, TRUE)
    /\ UNCHANGED <<intents, direct, stock0>>

\* serializer.save() to the end of the function: the block commits or is
\* rolled back, then the order id is pushed into the intent metadata.
ServiceSave(r, clearOk, pushOk) ==
    /\ req[r].pc = "save"
    /\ LET p   == req[r].pi
           blk == ServiceSaveBlock(ServiceView(r), p, intents[p], ServiceAddress(r),
                                   req[r].cart_items, clearOk)
       IN  /\ db' = transaction_atomic(db, blk.db, blk.raised)
           /\ intents' = IF ~blk.raised /\ pushOk
                         THEN [intents EXCEPT ![p].metadata.order_id = blk.order]
                         ELSE intents
           /\ req' = Finish(r, "service", p, blk.order, 0)
    /\ rowLock' = Release(r)
    /\ UNCHANGED <<direct, stock0>>

\* ------------------------------------------------------------------ order view
\* OrderViewSet.create (POST /api/order).  The serializer runs outside any
\* transaction, so each of its statements is committed as it is made.
OrderCreate(user, guestFields, addressId, c) ==
    LET guestOrder == guestFields /\ user = None
        gdata == [email |-> "e", firstName |-> "n", lastName |-> "n",
                  addressId |-> addressId, items |-> ToOrderItems(c)]
        adata == [user_id |-> user, addressId |-> addressId, items |-> ToOrderItems(c)]
        valid == IF guestOrder THEN GuestDataValid(gdata) ELSE AuthDataValid(adata)
        ser   == IF guestOrder
                 THEN CreateGuestOrderSerializer_create(db, gdata, SerializerContext)
                 ELSE CreateAuthenticatedOrderSerializer_create(db, adata, SerializerContext)
    IN  /\ \A i \in CartItemSet(c) : rowLock[i] = 0
        /\ IF ~valid THEN db' = db /\ direct' = 400
           ELSE db' = ser.db /\ direct' = (IF ser.raised THEN 400 ELSE 201)
        /\ UNCHANGED <<intents, req, rowLock, stock0>>

\* ------------------------------------------------------------------ specification
Callers == Users \cup {None}
Cookies == GuestCookies \cup {None}

Next ==
    \/ \E p \in IntentIds, b \in Bodies, u \in Callers, g \in Cookies : CreateIntent(p, b, u, g)
    \/ \E p \in IntentIds, u \in Callers, g \in Cookies, f \in ShippingCases : Shipping(p, u, g, f)
    \/ \E p \in IntentIds : Charge(p)
    \/ \E u \in Users, i \in Items, q \in 1..MaxQty : CartCreate(u, i, q)
    \/ \E u \in Users, i \in Items : CartDestroy(u, i)
    \/ \E i \in Items : DeleteProductItem(i)
    \/ \E r \in Reqs : WebhookBadSignature(r)
    \/ \E r \in Reqs, p \in IntentIds,
          e \in {"payment_intent.payment_failed", "charge.refunded"} : WebhookOther(r, p, e)
    \/ \E r \in Reqs, p \in IntentIds : WebhookSucceeded(r, p)
    \/ \E r \in Reqs, p \in IntentIds, u \in Callers, g \in Cookies : CreateOrder(r, p, u, g)
    \/ \E r \in Reqs, ok \in BOOLEAN, push \in BOOLEAN : ViewAtomic(r, ok, push)
    \/ \E r \in Reqs, p \in IntentIds, c \in Carts \cup {<<>>} : ServiceBegin(r, p, c)
    \/ \E r \in Reqs, i \in Items : ServiceLock(r, i)
    \/ \E r \in Reqs : ServiceDeadlock(r)
    \/ \E r \in Reqs : ServiceStock(r)
    \/ \E r \in Reqs, ok \in BOOLEAN, push \in BOOLEAN : ServiceSave(r, ok, push)

Spec == Init /\ [][Next]_vars

\* A request that has entered the atomic block of the view's routine runs it
\* to the end: the block waits for nothing.
SpecLive == Spec /\ \A r \in Reqs : WF_vars(\E ok \in BOOLEAN, push \in BOOLEAN : ViewAtomic(r, ok, push))

\* ------------------------------------------------------------------ the serializers alone
\* The two create methods applied to every input, the context included, and
\* the endpoint that calls them; each statement is committed as it is made.
Countries == {"au", "nz"}
Contexts  == Countries \cup {NoCountry}

GuestInputs ==
    [email : {"e"}, firstName : {"n"}, lastName : {"n"},
     addressId : {1, 99}, items : {ToOrderItems(c) : c \in Carts}]

AuthInputs ==
    [user_id : Users \cup {"u9"}, addressId : {1, 99},
     items : {ToOrderItems(c) : c \in Carts}]

GuestCreate(data, cc) ==
    /\ Len(db.orders) < MaxOrders
    /\ Len(db.guests) < MaxGuests
    /\ db' = CreateGuestOrderSerializer_create(db, data, cc).db
    /\ UNCHANGED <<intents, req, rowLock, direct, stock0>>

AuthenticatedCreate(data, cc) ==
    /\ Len(db.orders) < MaxOrders
    /\ db' = CreateAuthenticatedOrderSerializer_create(db, data, cc).db
    /\ UNCHANGED <<intents, req, rowLock, direct, stock0>>

\* base/enums/order_status.py
ORDER_STATUS == {"pending", "processing", "shipped", "delivered", "cancelled"}

\* The values a caller may post as updatedStatus.
UpdatedStatuses == {"shipped", "refunded"}

\* OrderViewSet.update_order_status: the posted value is assigned and saved
\* (save does not run the field's choices validation); an unknown id is a 404.
update_order_status(id, updatedStatus) ==
    /\ \E k \in DOMAIN db.orders : db.orders[k].id = id
    /\ db' = [db EXCEPT !.orders =
                 [k \in DOMAIN db.orders |->
                     IF db.orders[k].id = id
                     THEN [db.orders[k] EXCEPT !.status = updatedStatus]
                     ELSE db.orders[k]]]
    /\ UNCHANGED <<intents, req, rowLock, direct, stock0>>

NextSerializers ==
    \/ \E data \in GuestInputs, cc \in Contexts : GuestCreate(data, cc)
    \/ \E data \in AuthInputs, cc \in Contexts : AuthenticatedCreate(data, cc)
    \/ \E u \in Callers, gf \in BOOLEAN, a \in {1, 99}, c \in Carts : OrderCreate(u, gf, a, c)
    \/ \E i \in Items : DeleteProductItem(i)
    \/ \E id \in 1..MaxOrders, st \in UpdatedStatuses : update_order_status(id, st)

SpecSerializers == Init /\ [][NextSerializers]_vars

\* total_price += price * quantity over the priced rows.
RECURSIVE RowsSum(_)
RowsSum(rows) ==
    IF rows = <<>> THEN 0
    ELSE Head(rows).price * Head(rows).quantity + RowsSum(Tail(rows))

\* ------------------------------------------------------------------ order ids
\* CreateAuthenticatedOrderSerializer.create run by overlapping requests, with
\* OrderModel.save in its two statements: the read of the last order's id,
\* then the INSERT under the id computed from it.

\* The serializer's items as cart lines.
FromOrderItems(its) ==
    [k \in DOMAIN its |-> [product_item_id |-> its[k].productItemId, qty |-> its[k].quantity]]

\* The order item rows the serializer has priced for a request.
PricedRows(r) ==
    [k \in DOMAIN req[r].cart_items |->
        [order |-> req[r].order,
         productItem |-> req[r].cart_items[k].product_item_id,
         quantity |-> req[r].cart_items[k].qty,
         price |-> SerializerPrice(req[r].cart_items[k].product_item_id, req[r].country_code)]]

\* OrderItemModel.objects.create row by row; a row of a product item that has
\* been deleted violates the foreign key and ends the loop.
RECURSIVE InsertOrderItems(_, _)
InsertOrderItems(d, rows) ==
    IF rows = <<>> THEN [raised |-> FALSE, db |-> d]
    ELSE IF Head(rows).productItem \notin d.items THEN [raised |-> TRUE, db |-> d]
    ELSE InsertOrderItems([d EXCEPT !.orderItems = Append(@, Head(rows))], Tail(rows))

\* create up to the read in OrderModel.save: the checks and the pricing, then
\* last_number + 1.  A ValidationError is answered 400.
CreateBegin(r, data, cc) ==
    /\ Startable(r)
    /\ Len(db.orders) < MaxOrders
    /\ LET ser == CreateAuthenticatedOrderSerializer_create(db, data, cc)
       IN  IF ser.raised
           THEN req' = Finish(r, "create", None, NoId, 400)
           ELSE req' = [req EXCEPT ![r].kind = "create", ![r].pc = "insert",
                                   ![r].order = OrderModel_save(db),
                                   ![r].cart_items = FromOrderItems(data.items),
                                   ![r].address_id = data.addressId,
                                   ![r].user_id = data.user_id,
                                   ![r].country_code = cc,
                                   ![r].prior = Finished]
    /\ UNCHANGED <<db, intents, rowLock, direct, stock0>>

\* super().save(): the INSERT.  The id is the primary key, so an id that is
\* taken raises IntegrityError, which nothing catches (500).
CreateInsert(r) ==
    /\ req[r].pc = "insert"
    /\ LET oid   == req[r].order
           rows  == PricedRows(r)
           order == [id |-> oid, user |-> req[r].user_id, guestUser |-> NoId,
                     address |-> req[r].address_id,
                     totalPrice |-> RowsSum(rows),
                     status |-> "pending", paymentIntentId |-> None]
           its   == InsertOrderItems([db EXCEPT !.orders = Append(@, order)], rows)
       IN  IF \E k \in DOMAIN db.orders : db.orders[k].id = oid
           THEN /\ db' = db
                /\ req' = Finish(r, "create", None, NoId, 500)
           ELSE /\ db' = its.db
                /\ req' = Finish(r, "create", None, oid, IF its.raised THEN 500 ELSE 201)
    /\ UNCHANGED <<intents, rowLock, direct, stock0>>

NextOrderIds ==
    \/ \E r \in Reqs, data \in AuthInputs, cc \in Contexts : CreateBegin(r, data, cc)
    \/ \E r \in Reqs : CreateInsert(r)
    \/ \E i \in Items : DeleteProductItem(i)

SpecOrderIds == Init /\ [][NextOrderIds]_vars

\* ------------------------------------------------------------------ properties
\* A finished request that entered the order-creation routine.
Reconciled(r) == Done(r) /\ req[r].ran

\* Neither request had finished when the other began.
Overlapped(r1, r2) ==
    r1 # r2 /\ r1 \notin req[r2].prior /\ r2 \notin req[r1].prior

\* The intent carries everything an order needs: vendor, an address that
\* exists or can be created, a purchaser, and product items that exist.
OrderReady(p) ==
    LET md == intents[p].metadata
    IN  /\ intents[p].status = "succeeded"
        /\ md.shipping_vendor_id # NoId
        /\ \/ md.address_id \in db.addresses
           \/ md.address_id = NoId /\ md.shipping_lines
        /\ \/ IsAuthenticated(md)
           \/ md.guest_email # None /\ md.guest_first_name # None /\ md.guest_last_name # None
        /\ md.cart_items # <<>>
        /\ CartItemSet(md.cart_items) \subseteq db.items

\* How far the committed stock of an item is below the stock at the start.
Decrement(i) == stock0[i] - db.stock[i]

\* The order was created by reconciliation: it carries a paymentIntentId.
CreatedByReconciliation(oid) ==
    \E k \in DOMAIN db.orders :
        db.orders[k].id = oid /\ db.orders[k].paymentIntentId # None

\* The quantity of item i over those of the rows that belong to committed
\* orders reconciliation created.
RECURSIVE SumRows(_, _)
SumRows(rows, i) ==
    IF rows = <<>> THEN 0
    ELSE (IF Head(rows).productItem = i /\ CreatedByReconciliation(Head(rows).order)
          THEN Head(rows).quantity ELSE 0) + SumRows(Tail(rows), i)

OrderedQty(i) == SumRows(db.orderItems, i)

\* The largest quantity of item i any request for intent p asked for.
MaxRequested(p, i) ==
    LET qs == {QtyOf(req[r].cart_items, i) : r \in {q \in Reqs : req[q].pi = p}} \cup {0}
    IN  CHOOSE m \in qs : \A q \in qs : q <= m

RECURSIVE SumRequested(_, _)
SumRequested(ps, i) ==
    IF ps = {} THEN 0
    ELSE LET p == CHOOSE x \in ps : TRUE
         IN  MaxRequested(p, i) + SumRequested(ps \ {p}, i)

\* C1: when order creation is invoked twice in a row for an intent that is
\* ready to become an order, the first invocation creates an Order, exactly
\* one Order carries the intent's id, and the second returns that same Order.
SequentialIdempotence_C1 ==
    \A r1, r2 \in Reqs :
        ( /\ Reconciled(r1) /\ Reconciled(r2)
          /\ r1 \in req[r2].prior
          /\ req[r1].pi = req[r2].pi
          /\ req[r1].kind \in {"webhook", "manual"} \/ req[r1].stockRes = "ok"
          /\ OrderReady(req[r1].pi) )
        => /\ Cardinality(OrdersWithIntent(db, req[r1].pi)) = 1
           /\ req[r1].order # NoId
           /\ req[r2].order = req[r1].order

\* C2: in every committed state at most one Order carries a given
\* paymentIntentId, and the stock of an item is below its starting level by
\* no more than one request per intent asked for.
AtMostOneOrderPerIntent_C2 ==
    /\ \A p \in IntentIds : Cardinality(OrdersWithIntent(db, p)) <= 1
    /\ \A i \in db.items : Decrement(i) <= SumRequested(IntentIds, i)

\* Two requests for one intent overlapped, both got past the duplicate check,
\* and one of them reserved stock.
ConcurrentSameIntent_C2 ==
    \E r1, r2 \in Reqs :
        /\ Reconciled(r1) /\ Reconciled(r2) /\ Overlapped(r1, r2)
        /\ req[r1].pi = req[r2].pi
        /\ req[r1].cart_items # <<>> /\ req[r2].cart_items # <<>>
        /\ req[r1].stockRes = "ok"

\* C3: a reservation that succeeded, while it holds the row locks, asked of
\* each product item no more than the item's stock; an attempt asking more is
\* rejected.
NoOversell_C3 ==
    \A r \in Reqs :
        req[r].pc = "save" =>
            \A i \in CartItemSet(req[r].cart_items) :
                QtyOf(req[r].cart_items, i) <= db.stock[i]

HasShortLine(r) ==
    \E k \in DOMAIN req[r].cart_items :
        LET l == req[r].cart_items[k]
        IN  l.product_item_id \notin db.items \/ db.stock[l.product_item_id] < l.qty

\* C5: when a request whose cart has a short line ends, it returns no Order
\* and the orders and the stock of every item are as they were before.
AllOrNothing_C5 ==
    [][\A r \in Reqs :
          (req[r].pc \in {"lock", "atomic"} /\ HasShortLine(r) /\ req'[r].pc = "done")
          => /\ req'[r].order = NoId
             /\ db'.orders = db.orders
             /\ db'.orderItems = db.orderItems
             /\ db'.stock = db.stock]_vars

\* A reservation was refused for a cart one of whose lines had enough stock.
RefusedWithGoodLine_C5 ==
    \E r \in Reqs :
        /\ Done(r) /\ req[r].stockRes = "insufficient"
        /\ \E k \in DOMAIN req[r].cart_items :
              LET l == req[r].cart_items[k]
              IN  l.product_item_id \in db.items /\ db.stock[l.product_item_id] >= l.qty

VerifiedWebhook200_C8 ==
    \A r \in Reqs :
        (Done(r) /\ req[r].kind \in {"webhook", "webhook_other"}) => req[r].resp = 200

\* A verified payment_intent.succeeded whose order creation returned None.
WebhookFailedInside_C8 ==
    \E r \in Reqs :
        /\ Reconciled(r) /\ req[r].kind = "webhook"
        /\ OrderReady(req[r].pi) /\ req[r].cart_items # <<>>
        /\ req[r].order = NoId /\ req[r].resp = 200

\* C9: the step that answers an unverifiable webhook request answers 400 and
\* changes neither the database, nor the gateway's intents, nor any lock.
BadSignatureNoChange_C9 ==
    [][\A r \in Reqs :
          (req[r].pc = "idle" /\ req'[r].kind = "webhook_bad")
          => /\ req'[r].resp = 400
             /\ db' = db /\ intents' = intents /\ rowLock' = rowLock]_vars

\* An unverifiable request was answered while an order-ready intent was unpaid.
BadSignatureAnswered_C9 ==
    \E r \in Reqs, p \in IntentIds :
        /\ Done(r) /\ req[r].kind = "webhook_bad"
        /\ intents[p].status = "requires_payment_method"
        /\ intents[p].metadata.shipping_vendor_id # NoId

\* C10: every persisted Order has exactly one owner: a user and no guest
\* user, or a guest user and no user.
ExactlyOneOwner_C10 ==
    \A k \in DOMAIN db.orders :
        (db.orders[k].user # None) # (db.orders[k].guestUser # NoId)

\* A guest's order and a user's order are both persisted.
BothKindsOfOrder_C10 ==
    /\ \E k \in DOMAIN db.orders : db.orders[k].guestUser # NoId
    /\ \E k \in DOMAIN db.orders : db.orders[k].user # None

\* C11: a create-order request from a caller who does not own the intent is
\* answered 403 and is given no order id, whatever the state of the intent.
NonOwnerForbidden_C11 ==
    \A r \in Reqs :
        (Done(r) /\ req[r].kind = "manual" /\ req[r].caller = "other")
        => req[r].resp = 403 /\ req[r].order = NoId

ServerTotal(c) ==
    LET RECURSIVE Sum(_)
        Sum(S) == IF S = {} THEN 0
                  ELSE LET i == CHOOSE x \in S : TRUE
                       IN  ProductItemModel_price(i) * QtyOf(c, i) + Sum(S \ {i})
    IN  Sum(Items)

\* C13: the amount of every intent is the server-priced total of its cart
\* rounded to the nearest cent, halves up.
IntentAmountIsServerTotal_C13 ==
    \A p \in IntentIds :
        intents[p].status # "none" =>
            /\ 10 * intents[p].amount <= ServerTotal(intents[p].metadata.cart_items) + 5
            /\ 10 * intents[p].amount >  ServerTotal(intents[p].metadata.cart_items) - 5

\* An intent exists for a cart whose total is not a whole number of cents.
FractionalTotalCharged_C13 ==
    \E p \in IntentIds :
        /\ intents[p].status # "none"
        /\ ServerTotal(intents[p].metadata.cart_items) % 10 # 0

\* What create-intent charges, in cents, for the lines of a persisted order.
RECURSIVE RowsServerTotal(_, _)
RowsServerTotal(rows, oid) ==
    IF rows = <<>> THEN 0
    ELSE (IF Head(rows).order = oid
          THEN ProductItemModel_price(Head(rows).productItem) * Head(rows).quantity
          ELSE 0) + RowsServerTotal(Tail(rows), oid)

CartClearedOnlyOnCommit_C16 ==
    [][(req' # req /\ db'.cart # db.cart) =>
          \E r \in Reqs :
              LET md == intents[req'[r].pi].metadata
              IN  /\ req[r].pc # "done" /\ req'[r].pc = "done"
                  /\ IsAuthenticated(md)
                  /\ req'[r].order # NoId
                  /\ \E k \in DOMAIN db'.orders : db'.orders[k].id = req'[r].order
                  /\ \A u \in Users : u # md.user_id => db'.cart[u] = db.cart[u]]_vars

\* A reconciliation for an authenticated purchaser got past the duplicate
\* check, committed no Order, and the purchaser's cart still has its lines.
UncommittedKeepsCart_C16 ==
    \E r \in Reqs :
        /\ Reconciled(r) /\ req[r].cart_items # <<>> /\ req[r].order = NoId
        /\ IsAuthenticated(intents[req[r].pi].metadata)
        /\ \E i \in Items : db.cart[intents[req[r].pi].metadata.user_id][i] > 0

\* C19: the step that answers a payment_intent.payment_failed event (or an
\* event of a type the handler does not know) changes neither the database
\* nor the gateway's intents.
FailedPaymentNoChange_C19 ==
    [][\A r \in Reqs :
          (req[r].pc = "idle" /\ req'[r].kind = "webhook_other")
          => db' = db /\ intents' = intents]_vars

\* A payment_failed event was answered for an intent with shipping data.
FailedPaymentAnswered_C19 ==
    \E r \in Reqs :
        /\ Done(r) /\ req[r].kind = "webhook_other"
        /\ intents[req[r].pi].metadata.shipping_vendor_id # NoId

StatusInEnum_C21 ==
    \A k \in DOMAIN db.orders : db.orders[k].status \in ORDER_STATUS

\* The sum of price times quantity over the order items of an order.
RECURSIVE RowsTotal(_, _)
RowsTotal(rows, oid) ==
    IF rows = <<>> THEN 0
    ELSE (IF Head(rows).order = oid THEN Head(rows).price * Head(rows).quantity ELSE 0)
         + RowsTotal(Tail(rows), oid)

\* C22: for every persisted Order the sum over its OrderItems of price times
\* quantity equals Order.totalPrice within one cent.
ItemsSumToTotal_C22 ==
    \A k \in DOMAIN db.orders :
        Abs(RowsTotal(db.orderItems, db.orders[k].id) - db.orders[k].totalPrice) <= 10

\* C24: no state is reached in which reconciliations wait for one another's
\* stock-row locks in a cycle.
NoLockCycle_C24 ==
    \A r \in Reqs : ~Reaches(r, r, MaxReqs)

LinesFromIntent_C26 ==
    \A r \in Reqs :
        (req[r].kind \in {"webhook", "manual", "service"} /\ req[r].cart_items # <<>>)
        => req[r].cart_items = intents[req[r].pi].metadata.cart_items

\* C27: every verified payment_intent.succeeded webhook request ends with an
\* acknowledgement, and each of its steps either commits an Order for the
\* intent or leaves the database exactly as it was.
WebhookAllOrNothing_C27 ==
    /\ [][\A r \in Reqs :
             (req'[r] # req[r] /\ req'[r].kind = "webhook") =>
                \/ db' = db
                \/ /\ req'[r].pc = "done" /\ req'[r].order # NoId
                   /\ \E k \in OrdersWithIntent(db', req'[r].pi) :
                          db'.orders[k].id = req'[r].order]_vars
    /\ \A r \in Reqs :
          (req[r].kind = "webhook") ~> (Done(r) /\ req[r].resp = 200)

\* A webhook request whose block had inserted an address from the shipping
\* data ended with no address added.
WebhookRolledBackAddress_C27 ==
    \E r \in Reqs :
        /\ Reconciled(r) /\ req[r].kind = "webhook" /\ req[r].cart_items # <<>>
        /\ intents[req[r].pi].metadata.address_id = NoId
        /\ AddressFromShipping(db, intents[req[r].pi].metadata).id # NoId
        /\ req[r].order = NoId
        /\ db.addresses = {1}

\* C29: a reservation is accepted only if, for every product item of the
\* cart, the locked stock is at least the sum of the quantities of the lines
\* naming it.
RepeatedLinesSummed_C29 ==
    [][\A r \in Reqs :
          (req[r].pc = "lock" /\ req'[r].stockRes = "ok") =>
             \A i \in CartItemSet(req[r].cart_items) :
                 ServiceView(r).stock[i] >= QtyOf(req[r].cart_items, i)]_vars

====
